---- MODULE Spec2Model ----
(***************************************************************************)
(* A model of the openai-api client library (src/src/lib.rs):              *)
(*   - the request configurations CompletionArgs and ChatArgs, their       *)
(*     derive_builder builders and the From / TryFrom conversions;         *)
(*   - the transport client: Client::get, Client::post and the domain      *)
(*     operations models, model, complete_prompt and chat;                 *)
(*   - Client::new, calls in flight at the same time on one client, and    *)
(*     the Display of the values returned.                                 *)
(*                                                                         *)
(* Conventions.                                                            *)
(*   Option<T>    None, Some(v)                                            *)
(*   Result<T,E>  Ok(v), Err(e)                                            *)
(*   f64          an integer number of tenths (1.0 is 10, 0.7 is 7)        *)
(*   HashMap      a set of <<key, value>> pairs with distinct keys         *)
(*   JSON         tagged records, see the section on bodies                *)
(*   header text  the sequence of its bytes                                *)
(***************************************************************************)
EXTENDS Integers, Sequences, FiniteSets, TLC

VARIABLES
    cbuilder,   \* the caller's CompletionArgsBuilder
    chbuilder,  \* the caller's ChatArgsBuilder
    cgiven,     \* per CompletionArgsBuilder setter, the value last passed to it
    chgiven,    \* per ChatArgsBuilder setter, the value last passed to it
    nset,       \* number of setter calls made so far
    last,       \* the last construction of a config: operation, input, output
    created,    \* the call of Client::new: its token, the outcome of the
                \* HTTP client's build, and what it returned
    client,     \* the Client: base_url and default headers
    calls,      \* per call of a domain operation: position and local values
    wire        \* the requests handed to the HTTP transport, in order

buildVars == <<cbuilder, chbuilder, cgiven, chgiven, nset, last>>
clientVars == <<created, client, calls, wire>>
vars == <<cbuilder, chbuilder, cgiven, chgiven, nset, last, created, client,
          calls, wire>>

\* ------------------------------------------------------------------ bounds
\* Longest sequence of setter calls explored on the builders.
MaxSetters == 3
\* Largest number of requests explored on one client.
MaxRequests == 2

\* -------------------------------------------------------- Option and Result
None == [some |-> FALSE]
Some(x) == [some |-> TRUE, v |-> x]
Ok(x) == [ok |-> TRUE, v |-> x]
Err(e) == [ok |-> FALSE, e |-> e]

\* ------------------------------------------------- CompletionArgs defaults
DefaultCompletionModel == "text-davinci-003"
DefaultPrompt == "<|endoftext|>"
DefaultMaxTokens == 16
DefaultTemperature == 10
DefaultTopP == 10
DefaultN == 1
DefaultEcho == FALSE
DefaultPresencePenalty == 0
DefaultFrequencyPenalty == 0
DefaultChatModel == "gpt-3.5-turbo"

CompletionFields ==
    {"model", "prompt", "max_tokens", "temperature", "top_p", "n", "logprobs",
     "echo", "stop", "presence_penalty", "frequency_penalty", "logit_bias"}

ChatFields ==
    {"model", "messages", "max_tokens", "temperature", "top_p", "n", "stop",
     "presence_penalty", "frequency_penalty", "logit_bias"}

\* A variant whose max_tokens default is not the documented one.
CompletionDefault_stale ==
    [model |-> DefaultCompletionModel,
     prompt |-> DefaultPrompt,
     max_tokens |-> DefaultMaxTokens * 16,
     temperature |-> DefaultTemperature,
     top_p |-> DefaultTopP,
     n |-> DefaultN,
     logprobs |-> None,
     echo |-> DefaultEcho,
     stop |-> None,
     presence_penalty |-> DefaultPresencePenalty,
     frequency_penalty |-> DefaultFrequencyPenalty,
     logit_bias |-> {}]

\* The #[builder(default ...)] expression of each CompletionArgs field.
\* A bare `default` is Default::default(): None for an Option, empty for a map.
CompletionDefault ==
    [model |-> DefaultCompletionModel,
     prompt |-> DefaultPrompt,
     max_tokens |-> DefaultMaxTokens,
     temperature |-> DefaultTemperature,
     top_p |-> DefaultTopP,
     n |-> DefaultN,
     logprobs |-> None,
     echo |-> DefaultEcho,
     stop |-> None,
     presence_penalty |-> DefaultPresencePenalty,
     frequency_penalty |-> DefaultFrequencyPenalty,
     logit_bias |-> {}]

\* The #[builder(default ...)] expression of each ChatArgs field.
ChatDefault ==
    [model |-> DefaultChatModel,
     messages |-> << >>,
     max_tokens |-> None,
     temperature |-> DefaultTemperature,
     top_p |-> DefaultTopP,
     n |-> DefaultN,
     stop |-> None,
     presence_penalty |-> DefaultPresencePenalty,
     frequency_penalty |-> DefaultFrequencyPenalty,
     logit_bias |-> {}]

\* Fields whose setter is #[builder(setter(strip_option))]: the setter takes
\* the bare value and stores it wrapped as present.
CompletionStripOption == {"logprobs", "stop"}
ChatStripOption == {"max_tokens", "stop"}

\* ------------------------------------------------------------ the builders
\* CompletionArgsBuilder::default(): every field unset.
CompletionArgsBuilder_default == [f \in CompletionFields |-> None]
ChatArgsBuilder_default == [f \in ChatFields |-> None]

\* CompletionArgs::builder() and ChatArgs::builder()
CompletionArgs_builder == CompletionArgsBuilder_default
ChatArgs_builder == ChatArgsBuilder_default

\* A generated setter (pattern = "immutable": a new builder is returned).
CompletionArgsBuilder_set(b, f, x) ==
    [b EXCEPT ![f] = Some(IF f \in CompletionStripOption THEN Some(x) ELSE x)]
ChatArgsBuilder_set(b, f, x) ==
    [b EXCEPT ![f] = Some(IF f \in ChatStripOption THEN Some(x) ELSE x)]

\* A variant of build() that validates the sampling temperature.
CompletionArgsBuilder_build_validated(b) ==
    IF b["temperature"].some /\ b["temperature"].v \notin 0..20
    THEN Err("ValidationError")
    ELSE Ok([f \in CompletionFields |->
                IF b[f].some THEN b[f].v ELSE CompletionDefault[f]])

\* The generated build(): each field is the value set, or else its default.
\* No field lacks a default, so the UninitializedField error has no branch.
CompletionArgsBuilder_build(b) ==
    Ok([f \in CompletionFields |->
            IF b[f].some THEN b[f].v ELSE CompletionDefault[f]])
ChatArgsBuilder_build(b) ==
    Ok([f \in ChatFields |->
            IF b[f].some THEN b[f].v ELSE ChatDefault[f]])

\* The outcome of an expression that panics with the message msg.
Panic(msg) == [panic |-> msg]
IsPanic(x) == "panic" \in DOMAIN x

\* A variant of From<&str> written as a full struct literal whose model
\* differs from the builder's default.
CompletionArgs_from_literal(prompt_string) ==
    [CompletionDefault EXCEPT !.prompt = prompt_string, !.model = "davinci"]

\* impl From<&str> for CompletionArgs: the default build with the prompt
\* replaced (struct update syntax); .expect panics on an Err.
CompletionArgs_from(prompt_string) ==
    LET r == CompletionArgsBuilder_build(CompletionArgsBuilder_default)
    IN  IF r.ok THEN [r.v EXCEPT !.prompt = prompt_string]
        ELSE Panic("default should build")

\* ChatFormat { role, content }
ChatFormat(role, content) == [role |-> role, content |-> content]

\* A variant of From<Vec<(ChatRole, String)>> that collects the messages
\* last first.
ChatArgs_from_reversed(msg) ==
    LET mapped == [i \in 1..Len(msg) |->
                      ChatFormat(msg[Len(msg) + 1 - i][1], msg[Len(msg) + 1 - i][2])]
        r == ChatArgsBuilder_build(ChatArgsBuilder_default)
    IN  IF r.ok THEN [r.v EXCEPT !.messages = mapped]
        ELSE Panic("default should build")

\* impl From<Vec<(ChatRole, String)>> for ChatArgs
ChatArgs_from(msg) ==
    LET mapped == [i \in 1..Len(msg) |-> ChatFormat(msg[i][1], msg[i][2])]
        r == ChatArgsBuilder_build(ChatArgsBuilder_default)
    IN  IF r.ok THEN [r.v EXCEPT !.messages = mapped]
        ELSE Panic("default should build")

\* impl TryFrom<CompletionArgsBuilder> for CompletionArgs
CompletionArgs_try_from(builder) == CompletionArgsBuilder_build(builder)
\* impl TryFrom<ChatArgsBuilder> for ChatArgs
ChatArgs_try_from(builder) == ChatArgsBuilder_build(builder)

\* ------------------------------------------------- inputs of the builders
\* enum ChatRole
ChatRole == {"System", "User", "Assistant"}

\* Lists of (role, content) pairs a caller passes.
PairLists ==
    { << >>,
      << <<"System", "You are a helpful assistant.">> >>,
      << <<"User", "q1">>, <<"Assistant", "a1">> >>,
      << <<"Assistant", "a1">>, <<"User", "q1">> >>,
      << <<"User", "q1">>, <<"Assistant", "a1">>, <<"User", "q1">> >> }

MessageLists ==
    { [i \in 1..Len(p) |-> ChatFormat(p[i][1], p[i][2])] : p \in PairLists }

Prompts == {"", "Once upon a time"}

\* Values given to the setters; several lie outside the ranges the service
\* documents (temperature 0..2, top_p 0..1, penalties -2..2, n >= 1).
CompletionSetterValues ==
    [model |-> {"ada"},
     prompt |-> Prompts,
     max_tokens |-> {0},
     temperature |-> {10, 25},
     top_p |-> {15},
     n |-> {0},
     logprobs |-> {3},
     echo |-> {TRUE},
     stop |-> {<<"\n">>},
     presence_penalty |-> {-30},
     frequency_penalty |-> {30},
     logit_bias |-> {{<<"1", 10>>, <<"23", 0>>}}]

ChatSetterValues ==
    [model |-> {"gpt-3.5-turbo-0301"},
     messages |-> {m \in MessageLists : Len(m) \in {1, 3}},
     max_tokens |-> {0},
     temperature |-> {10, 25},
     top_p |-> {15},
     n |-> {0},
     stop |-> {<<"#", "\n">>},
     presence_penalty |-> {-30},
     frequency_penalty |-> {30},
     logit_bias |-> {{<<"1", 10>>}}]

\* --------------------------------------------------- construction actions
NoConstruction == [op |-> "none"]

\* builder.<field>(x) on a CompletionArgsBuilder
CompletionSetter ==
    /\ nset < MaxSetters
    /\ \E f \in CompletionFields : \E x \in CompletionSetterValues[f] :
          /\ cbuilder' = CompletionArgsBuilder_set(cbuilder, f, x)
          /\ cgiven' = [cgiven EXCEPT ![f] = Some(x)]
    /\ nset' = nset + 1
    /\ UNCHANGED <<chbuilder, chgiven, last, clientVars>>

\* builder.<field>(x) on a ChatArgsBuilder
ChatSetter ==
    /\ nset < MaxSetters
    /\ \E f \in ChatFields : \E x \in ChatSetterValues[f] :
          /\ chbuilder' = ChatArgsBuilder_set(chbuilder, f, x)
          /\ chgiven' = [chgiven EXCEPT ![f] = Some(x)]
    /\ nset' = nset + 1
    /\ UNCHANGED <<cbuilder, cgiven, last, clientVars>>

\* builder.build() on a CompletionArgsBuilder
CompletionBuild ==
    /\ last' = [op |-> "build", ty |-> "CompletionArgs", input |-> cbuilder,
                given |-> cgiven,
                out |-> CompletionArgsBuilder_build(cbuilder)]
    /\ UNCHANGED <<cbuilder, chbuilder, cgiven, chgiven, nset, clientVars>>

\* builder.build() on a ChatArgsBuilder
ChatBuild ==
    /\ last' = [op |-> "build", ty |-> "ChatArgs", input |-> chbuilder,
                given |-> chgiven,
                out |-> ChatArgsBuilder_build(chbuilder)]
    /\ UNCHANGED <<cbuilder, chbuilder, cgiven, chgiven, nset, clientVars>>

\* CompletionArgs::try_from(builder), also builder.try_into()
CompletionTryFrom ==
    /\ last' = [op |-> "try_from", ty |-> "CompletionArgs", input |-> cbuilder,
                given |-> cgiven,
                out |-> CompletionArgs_try_from(cbuilder)]
    /\ UNCHANGED <<cbuilder, chbuilder, cgiven, chgiven, nset, clientVars>>

\* ChatArgs::try_from(builder), also builder.try_into()
ChatTryFrom ==
    /\ last' = [op |-> "try_from", ty |-> "ChatArgs", input |-> chbuilder,
                given |-> chgiven,
                out |-> ChatArgs_try_from(chbuilder)]
    /\ UNCHANGED <<cbuilder, chbuilder, cgiven, chgiven, nset, clientVars>>

\* CompletionArgs::from(s), also s.into()
CompletionFrom ==
    /\ \E s \in Prompts :
          last' = [op |-> "from", ty |-> "CompletionArgs", input |-> s,
                   out |-> CompletionArgs_from(s)]
    /\ UNCHANGED <<cbuilder, chbuilder, cgiven, chgiven, nset, clientVars>>

\* ChatArgs::from(list), also list.into()
ChatFrom ==
    /\ \E p \in PairLists :
          last' = [op |-> "from", ty |-> "ChatArgs", input |-> p,
                   out |-> ChatArgs_from(p)]
    /\ UNCHANGED <<cbuilder, chbuilder, cgiven, chgiven, nset, clientVars>>

\* ------------------------------------------------------------------ JSON
\* A JSON value is a tagged record; an object holds a record of its members.
JNull == [t |-> "null"]
JBool(b) == [t |-> "bool", bv |-> b]
JNum(n) == [t |-> "num", nv |-> n]
JStr(x) == [t |-> "str", sv |-> x]
JArr(a) == [t |-> "arr", a |-> a]
JObj(m) == [t |-> "obj", m |-> m]

\* The bytes of a body: JSON text holding the value j, or text that is not
\* JSON (an empty body, an HTML page).
JsonText(j) == [json |-> TRUE, j |-> j]
NotJson == [json |-> FALSE]

\* ---- the types that derive Serialize or Deserialize, as data
TyString == [k |-> "String"]
TyU64 == [k |-> "u64"]
TyF64 == [k |-> "f64"]
TyBool == [k |-> "bool"]
TyOption(ty) == [k |-> "Option", of |-> ty]
TyVec(ty) == [k |-> "Vec", of |-> ty]
TyHashMap(ty) == [k |-> "HashMap", of |-> ty]
\* A struct: per field, the JSON key (the field's name unless renamed) and
\* the field's type.
TyStruct(fields) == [k |-> "Struct", fields |-> fields]
Member(key, ty) == [key |-> key, ty |-> ty]

\* enum ChatRole with #[serde(rename = ...)] on each variant
ChatRoleName == [System |-> "system", User |-> "user", Assistant |-> "assistant"]
TyChatRole == [k |-> "Enum", names |-> ChatRoleName]

\* struct ErrorMessage { message: String, #[serde(rename = "code")]
\* status_code: String }
TyErrorMessage ==
    TyStruct([message |-> Member("message", TyString),
              status_code |-> Member("code", TyString)])

\* struct ErrorWrapper { error: ErrorMessage }
TyErrorWrapper == TyStruct([error |-> Member("error", TyErrorMessage)])

\* struct ModelInfo { id, owned_by, object }
TyModelInfo ==
    TyStruct([id |-> Member("id", TyString),
              owned_by |-> Member("owned_by", TyString),
              object |-> Member("object", TyString)])

\* struct Container<T> { data: Vec<T> }
TyContainer(ty) == TyStruct([data |-> Member("data", TyVec(ty))])

\* struct LogProbs
TyLogProbs ==
    TyStruct([tokens |-> Member("tokens", TyVec(TyString)),
              token_logprobs |-> Member("token_logprobs", TyVec(TyOption(TyF64))),
              top_logprobs |-> Member("top_logprobs",
                                      TyVec(TyOption(TyHashMap(TyF64)))),
              text_offset |-> Member("text_offset", TyVec(TyU64))])

\* struct Choice
TyChoice ==
    TyStruct([text |-> Member("text", TyString),
              index |-> Member("index", TyU64),
              logprobs |-> Member("logprobs", TyOption(TyLogProbs)),
              finish_reason |-> Member("finish_reason", TyString)])

\* struct Completion
TyCompletion ==
    TyStruct([id |-> Member("id", TyString),
              created |-> Member("created", TyU64),
              model |-> Member("model", TyString),
              choices |-> Member("choices", TyVec(TyChoice))])

\* struct ChatFormat, with #[serde(rename = "role")] and "content"
TyChatFormat ==
    TyStruct([role |-> Member("role", TyChatRole),
              content |-> Member("content", TyString)])

\* struct ChatChoice
TyChatChoice ==
    TyStruct([message |-> Member("message", TyChatFormat),
              index |-> Member("index", TyU64),
              finish_reason |-> Member("finish_reason", TyString)])

\* struct ChatAnswer
TyChatAnswer ==
    TyStruct([id |-> Member("id", TyString),
              created |-> Member("created", TyU64),
              choices |-> Member("choices", TyVec(TyChatChoice))])

\* struct CompletionArgs, as serialized
TyCompletionArgs ==
    TyStruct([model |-> Member("model", TyString),
              prompt |-> Member("prompt", TyString),
              max_tokens |-> Member("max_tokens", TyU64),
              temperature |-> Member("temperature", TyF64),
              top_p |-> Member("top_p", TyF64),
              n |-> Member("n", TyU64),
              logprobs |-> Member("logprobs", TyOption(TyU64)),
              echo |-> Member("echo", TyBool),
              stop |-> Member("stop", TyOption(TyVec(TyString))),
              presence_penalty |-> Member("presence_penalty", TyF64),
              frequency_penalty |-> Member("frequency_penalty", TyF64),
              logit_bias |-> Member("logit_bias", TyHashMap(TyF64))])

\* struct ChatArgs, as serialized
TyChatArgs ==
    TyStruct([model |-> Member("model", TyString),
              messages |-> Member("messages", TyVec(TyChatFormat)),
              max_tokens |-> Member("max_tokens", TyOption(TyU64)),
              temperature |-> Member("temperature", TyF64),
              top_p |-> Member("top_p", TyF64),
              n |-> Member("n", TyU64),
              stop |-> Member("stop", TyOption(TyVec(TyString))),
              presence_penalty |-> Member("presence_penalty", TyF64),
              frequency_penalty |-> Member("frequency_penalty", TyF64),
              logit_bias |-> Member("logit_bias", TyHashMap(TyF64))])

\* serde's derived Deserialize, reading the JSON value v as the type ty.
\*   String, u64, f64, bool: a value of that JSON type, and nothing else
\*   Option<T>: null is None, anything else is read as T
\*   Vec<T>: an array whose every element reads as T, in order
\*   HashMap<String, T>: an object whose every member reads as T
\*   an enum: one of the names of its variants
\*   a struct: an object; every field must be present under its key and
\*     read as its type, except that an absent Option field is None;
\*     members under other keys are ignored.
\* (serde also reads a struct from an array of its fields in order; no body
\* explored here is an array.)
RECURSIVE Deserialize(_, _)
Deserialize(ty, v) ==
    CASE ty.k = "String" ->
            IF v.t = "str" THEN Ok(v.sv) ELSE Err("invalid type")
      [] ty.k = "u64" ->
            IF v.t = "num" /\ v.nv >= 0 THEN Ok(v.nv) ELSE Err("invalid type")
      [] ty.k = "f64" ->
            IF v.t = "num" THEN Ok(v.nv) ELSE Err("invalid type")
      [] ty.k = "bool" ->
            IF v.t = "bool" THEN Ok(v.bv) ELSE Err("invalid type")
      [] ty.k = "Option" ->
            IF v.t = "null" THEN Ok(None)
            ELSE LET r == Deserialize(ty.of, v)
                 IN  IF r.ok THEN Ok(Some(r.v)) ELSE r
      [] ty.k = "Vec" ->
            IF v.t # "arr" THEN Err("invalid type")
            ELSE LET rs == [i \in 1..Len(v.a) |-> Deserialize(ty.of, v.a[i])]
                 IN  IF \A i \in 1..Len(v.a) : rs[i].ok
                     THEN Ok([i \in 1..Len(v.a) |-> rs[i].v])
                     ELSE Err("invalid element")
      [] ty.k = "HashMap" ->
            IF v.t # "obj" THEN Err("invalid type")
            ELSE LET rs == [key \in DOMAIN v.m |-> Deserialize(ty.of, v.m[key])]
                 IN  IF \A key \in DOMAIN v.m : rs[key].ok
                     THEN Ok({<<key, rs[key].v>> : key \in DOMAIN v.m})
                     ELSE Err("invalid member")
      [] ty.k = "Enum" ->
            IF v.t = "str" /\ \E x \in DOMAIN ty.names : ty.names[x] = v.sv
            THEN Ok(CHOOSE x \in DOMAIN ty.names : ty.names[x] = v.sv)
            ELSE Err("unknown variant")
      [] ty.k = "Struct" ->
            IF v.t # "obj" THEN Err("invalid type")
            ELSE LET rs == [f \in DOMAIN ty.fields |->
                               IF ty.fields[f].key \in DOMAIN v.m
                               THEN Deserialize(ty.fields[f].ty,
                                                v.m[ty.fields[f].key])
                               ELSE IF ty.fields[f].ty.k = "Option"
                                    THEN Ok(None)
                                    ELSE Err("missing field")]
                 IN  IF \A f \in DOMAIN ty.fields : rs[f].ok
                     THEN Ok([f \in DOMAIN ty.fields |-> rs[f].v])
                     ELSE Err("invalid struct")

\* serde's derived Serialize, writing the value x of type ty as JSON: a
\* struct is the object of all its fields under their keys, a Vec the array
\* of its elements in order, None is null.
RECURSIVE Serialize(_, _)
Serialize(ty, x) ==
    CASE ty.k = "String" -> JStr(x)
      [] ty.k \in {"u64", "f64"} -> JNum(x)
      [] ty.k = "bool" -> JBool(x)
      [] ty.k = "Option" -> IF x.some THEN Serialize(ty.of, x.v) ELSE JNull
      [] ty.k = "Vec" -> JArr([i \in 1..Len(x) |-> Serialize(ty.of, x[i])])
      [] ty.k = "HashMap" ->
            JObj([key \in {kv[1] : kv \in x} |->
                     Serialize(ty.of, (CHOOSE kv \in x : kv[1] = key)[2])])
      [] ty.k = "Enum" -> JStr(ty.names[x])
      [] ty.k = "Struct" ->
            JObj([key \in {ty.fields[f].key : f \in DOMAIN ty.fields} |->
                     LET f == CHOOSE g \in DOMAIN ty.fields :
                                  ty.fields[g].key = key
                     IN  Serialize(ty.fields[f].ty, x[f])])

\* Error::AsyncProtocol(reqwest::Error): the reqwest error keeps its kind.
AsyncProtocol(kind) == [variant |-> "AsyncProtocol", source |-> kind]
\* Error::Api(ErrorMessage)
Api(err) == [variant |-> "Api", err |-> err]

\* Response::json::<T>(): the body is read, then decoded as T; a failure of
\* either is a reqwest::Error.
BodyReadError == [json |-> FALSE, broken |-> TRUE]
ResponseJson(body, T) ==
    IF "broken" \in DOMAIN body THEN Err("Body")
    ELSE IF ~body.json THEN Err("Decode")
    ELSE LET r == Deserialize(T, body.j)
         IN  IF r.ok THEN r ELSE Err("Decode")

\* ------------------------------------------------------------ Display
\* What format!("{}", x) gives: the text written, or the panic of fmt.
Written(text) == [text |-> text]

\* self.choices[0]: Index on a Vec panics when the index is not below len.
Vec_index(v, i) ==
    IF i < Len(v) THEN v[i + 1]
    ELSE Panic("index out of bounds: the len is " \o ToString(Len(v))
               \o " but the index is " \o ToString(i))

\* impl Display for Choice: self.text.fmt(f)
Choice_fmt(self) == Written(self.text)

\* A variant of Display for Completion that writes the text of every
\* choice, one after the other.
Completion_fmt_all_choices(self) ==
    LET RECURSIVE Texts(_)
        Texts(i) == IF i > Len(self.choices) THEN ""
                    ELSE Choice_fmt(self.choices[i]).text \o Texts(i + 1)
    IN  Written(Texts(1))

\* impl Display for Completion: write!(f, "{}", self.choices[0])
Completion_fmt(self) ==
    LET choice == Vec_index(self.choices, 0)
    IN  IF IsPanic(choice) THEN choice ELSE Choice_fmt(choice)

\* impl Display for ChatFormat: write!(f, "role: {:?}, content: {}", ..);
\* the Debug form of a ChatRole is the name of its variant.
ChatFormat_fmt(self) ==
    Written("role: " \o self.role \o ", content: " \o self.content)

\* impl Display for ChatChoice: self.message.fmt(f)
ChatChoice_fmt(self) == ChatFormat_fmt(self.message)

\* impl Display for ChatAnswer: write!(f, "{}", self.choices[0])
ChatAnswer_fmt(self) ==
    LET choice == Vec_index(self.choices, 0)
    IN  IF IsPanic(choice) THEN choice ELSE ChatChoice_fmt(choice)

\* -------------------------------------------------------------- the client
\* reqwest::StatusCode::OK
StatusOK == 200

\* StatusCode::to_string(): the number and the canonical reason phrase.
CanonicalReason(code) ==
    CASE code = 200 -> "OK"
      [] code = 201 -> "Created"
      [] code = 204 -> "No Content"
      [] code = 301 -> "Moved Permanently"
      [] code = 404 -> "Not Found"
      [] code = 429 -> "Too Many Requests"
      [] code = 500 -> "Internal Server Error"
      [] OTHER -> "<unknown status code>"
StatusToString(code) == ToString(code) \o " " \o CanonicalReason(code)

\* A string that goes into a header is the sequence of its bytes.
\* "Bearer " of format!("Bearer {}", token):
Bearer == <<66, 101, 97, 114, 101, 114, 32>>

\* HeaderValue::from_str: every byte is at least 32 and not 127 (DEL), or
\* is a horizontal tab; otherwise InvalidHeaderValue.
HeaderValue_is_valid(b) == (b >= 32 /\ b # 127) \/ b = 9
HeaderValue_from_str(src) ==
    IF \A i \in 1..Len(src) : HeaderValue_is_valid(src[i])
    THEN Ok(src)
    ELSE Err("InvalidHeaderValue")

\* A variant of Client::new that returns the refusal of the header value
\* as an error instead of expect()ing it.
Client_new_checked(token, http) ==
    LET value == HeaderValue_from_str(Bearer \o token)
    IN  IF ~value.ok THEN Err(AsyncProtocol(value.e))
        ELSE IF ~http.ok THEN Err(AsyncProtocol(http.e))
        ELSE Ok([base_url |-> "https://api.openai.com/v1/",
                 headers |-> [Authorization |-> value.v]])

\* Client::new(token): the header value is made from the token and
\* expect()ed, the HTTP client is built with the Authorization header as
\* a default header, sent with every request, and `?` returns the failure
\* of that build; the base URL is the service's. `http` is the outcome of
\* reqwest::ClientBuilder::build().
Client_new(token, http) ==
    LET value == HeaderValue_from_str(Bearer \o token)
    IN  IF ~value.ok THEN Panic("invalid token")
        ELSE IF ~http.ok THEN Err(AsyncProtocol(http.e))
        ELSE Ok([base_url |-> "https://api.openai.com/v1/",
                 headers |-> [Authorization |-> value.v]])

\* The binding of `let client = Client::new(token)?`: the client where one
\* was returned, none where the constructor failed or panicked.
NoClient == [absent |-> TRUE]
ClientOf(out) == IF ~IsPanic(out) /\ out.ok THEN out.v ELSE NoClient

\* format!("{}{}", self.base_url, endpoint)
Client_url(self, endpoint) == self.base_url \o endpoint

\* A variant in which get sends its request through an HTTP client that
\* has no default headers.
Client_get_request_no_default_headers(self, endpoint) ==
    [method |-> "GET", url |-> Client_url(self, endpoint),
     headers |-> [h \in DOMAIN self.headers \ {"Authorization"} |-> self.headers[h]],
     body |-> None]

\* self.client.get(url): the request Client::get sends.
Client_get_request(self, endpoint) ==
    [method |-> "GET", url |-> Client_url(self, endpoint),
     headers |-> self.headers, body |-> None]

\* self.client.post(url).json(&body): the request Client::post sends, its
\* body the JSON serialization of the config.
Client_post_request(self, endpoint, body) ==
    [method |-> "POST", url |-> Client_url(self, endpoint),
     headers |-> self.headers, body |-> Some(JsonText(body))]

\* A variant of the match of Client::get that takes every 2xx as success.
Client_get_result_2xx(status, body, T) ==
    IF status \in 200..299
    THEN LET r == ResponseJson(body, T)
         IN  IF r.ok THEN Ok(r.v) ELSE Err(AsyncProtocol(r.e))
    ELSE LET status_code == StatusToString(status)
             w == ResponseJson(body, TyErrorWrapper)
         IN  IF ~w.ok THEN Err(AsyncProtocol(w.e))
             ELSE Err(Api([w.v.error EXCEPT !.status_code = status_code]))

\* A variant of the match of Client::get that, for a body that is not the
\* envelope, still returns the service error, made of the status alone.
Client_get_result_status_only(status, body, T) ==
    IF status = StatusOK
    THEN LET r == ResponseJson(body, T)
         IN  IF r.ok THEN Ok(r.v) ELSE Err(AsyncProtocol(r.e))
    ELSE LET status_code == StatusToString(status)
             w == ResponseJson(body, TyErrorWrapper)
         IN  IF ~w.ok THEN Err(Api([message |-> "", status_code |-> status_code]))
             ELSE Err(Api([w.v.error EXCEPT !.status_code = status_code]))

\* The match on response.status() of Client::get.
Client_get_result(status, body, T) ==
    IF status = StatusOK
    THEN LET r == ResponseJson(body, T)
         IN  IF r.ok THEN Ok(r.v) ELSE Err(AsyncProtocol(r.e))
    ELSE LET status_code == StatusToString(status)
             w == ResponseJson(body, TyErrorWrapper)
         IN  IF ~w.ok THEN Err(AsyncProtocol(w.e))
             ELSE Err(Api([w.v.error EXCEPT !.status_code = status_code]))

\* A variant of the match of Client::post that surfaces the envelope as
\* the service sent it, its code member included.
Client_post_result_keep_code(status, body, R) ==
    IF status = StatusOK
    THEN LET r == ResponseJson(body, R)
         IN  IF r.ok THEN Ok(r.v) ELSE Err(AsyncProtocol(r.e))
    ELSE LET w == ResponseJson(body, TyErrorWrapper)
         IN  IF ~w.ok THEN Err(AsyncProtocol(w.e))
             ELSE Err(Api(w.v.error))

\* A variant of the match of Client::post that reads the body of a 200
\* response as the error envelope when it is not the expected type.
Client_post_result_fallback(status, body, R) ==
    LET status_code == StatusToString(status)
        w == ResponseJson(body, TyErrorWrapper)
        r == ResponseJson(body, R)
    IN  IF status = StatusOK /\ r.ok THEN Ok(r.v)
        ELSE IF ~w.ok THEN Err(AsyncProtocol(w.e))
        ELSE Err(Api([w.v.error EXCEPT !.status_code = status_code]))

\* The match on response.status() of Client::post.
Client_post_result(status, body, R) ==
    IF status = StatusOK
    THEN LET r == ResponseJson(body, R)
         IN  IF r.ok THEN Ok(r.v) ELSE Err(AsyncProtocol(r.e))
    ELSE LET status_code == StatusToString(status)
             w == ResponseJson(body, TyErrorWrapper)
         IN  IF ~w.ok THEN Err(AsyncProtocol(w.e))
             ELSE Err(Api([w.v.error EXCEPT !.status_code = status_code]))

\* A variant in which a pre-built CompletionArgs is reduced to its prompt.
IntoCompletionArgs_prompt_only(input) ==
    CASE input.kind = "str" -> Some(CompletionArgs_from(input.s))
      [] input.kind = "args" -> Some(CompletionArgs_from(input.args.prompt))
      [] OTHER -> None

\* The conversions Into<CompletionArgs> that exist, by the kind of the
\* argument: From<&str>, and the reflexive From<CompletionArgs>. A builder
\* has TryFrom only, which gives TryInto and not Into: None.
IntoCompletionArgs(input) ==
    CASE input.kind = "str" -> Some(CompletionArgs_from(input.s))
      [] input.kind = "args" -> Some(input.args)
      [] OTHER -> None

\* The conversions Into<ChatArgs> that exist: From<Vec<(ChatRole, String)>>
\* and the reflexive From<ChatArgs>.
IntoChatArgs(input) ==
    CASE input.kind = "pairs" -> Some(ChatArgs_from(input.pairs))
      [] input.kind = "args" -> Some(input.args)
      [] OTHER -> None

\* What each domain operation does with the result of get or post.
\* models: .map(|r| r.data); the others return it as it is.
Client_models_map(r) == IF r.ok THEN Ok(r.v.data) ELSE r

\* A variant of the `?` on send() that tries the request again.
Client_on_send_error_retry(call, e) == [pc |-> "called"] @@ call

\* `send().await?`: a failure of the transport ends the call with it.
Client_on_send_error(call, e) ==
    [pc |-> "done", result |-> Err(AsyncProtocol(e))] @@ call

\* --------------------------------------------- inputs of the client model
\* "bogus" (the token of the tests), and tokens that end with a line feed
\* and with DEL.
TokenBogus == <<98, 111, 103, 117, 115>>
Tokens == {TokenBogus, <<115, 107, 10>>, <<115, 107, 127>>}
\* The outcomes of building the HTTP client (TLS backend, resolver).
HttpBuilds == {Ok("reqwest::Client"), Err("Builder")}
ModelIds == {"davinci", "text-ada-001"}
Statuses == {200, 201, 204, 301, 404, 429, 500}
TransportErrors == {"Connect", "Timeout"}

\* The CompletionArgs of the completion_args test, and one out of range.
CompletionArgsValues ==
    LET b1 == CompletionArgsBuilder_set(CompletionArgs_builder, "model", "text-davinci-003")
        b2 == CompletionArgsBuilder_set(b1, "prompt", "Once upon a time")
        b3 == CompletionArgsBuilder_set(b2, "max_tokens", 5)
        b4 == CompletionArgsBuilder_set(b3, "stop", <<"\n">>)
        o1 == CompletionArgsBuilder_set(CompletionArgs_builder, "temperature", 25)
    IN  {CompletionArgsBuilder_build(b4).v, CompletionArgsBuilder_build(o1).v}

\* The ChatArgs of the chat_args test.
ChatArgsValues ==
    LET b1 == ChatArgsBuilder_set(ChatArgs_builder, "messages",
                  << ChatFormat("System", "You are a helpful assistant.") >>)
        b2 == ChatArgsBuilder_set(b1, "max_tokens", 5)
        b3 == ChatArgsBuilder_set(b2, "stop", <<"\n">>)
    IN  {ChatArgsBuilder_build(b3).v}

\* What a caller may write as the argument of complete_prompt and of chat.
CompletionInputs ==
    {[kind |-> "str", s |-> x] : x \in Prompts}
    \cup {[kind |-> "args", args |-> a] : a \in CompletionArgsValues}
    \cup {[kind |-> "builder",
           builder |-> CompletionArgsBuilder_set(CompletionArgs_builder, "prompt", "Once upon a time")]}
ChatInputs ==
    {[kind |-> "pairs", pairs |-> p] : p \in PairLists}
    \cup {[kind |-> "args", args |-> a] : a \in ChatArgsValues}
    \cup {[kind |-> "builder", builder |-> ChatArgs_builder]}

\* ---- bodies a response may carry
ErrorBody(error) == JsonText(JObj([error |-> JObj(error)]))
BodyErrorCodeString ==
    ErrorBody([message |-> JStr("The model does not exist"),
               type |-> JStr("invalid_request_error"),
               code |-> JStr("model_not_found")])
BodyErrorCodeNull ==
    ErrorBody([code |-> JNull,
               message |-> JStr("Some kind of error happened"),
               type |-> JStr("some_error_type")])
BodyErrorNoCode == ErrorBody([message |-> JStr("Rate limit reached")])
BodyErrorNoMessage == ErrorBody([code |-> JStr("server_error")])
ModelAda ==
    JObj([id |-> JStr("ada"), object |-> JStr("model"), owned_by |-> JStr("openai")])
BodyModel == JsonText(ModelAda)
BodyModels == JsonText(JObj([object |-> JStr("list"), data |-> JArr(<<ModelAda>>)]))
BodyCompletion ==
    JsonText(JObj([id |-> JStr("cmpl-uqkvlQyYK7bGYrRHQ0eXlWi7"),
                   object |-> JStr("text_completion"),
                   created |-> JNum(1589478378),
                   model |-> JStr("davinci:2020-05-03"),
                   choices |-> JArr(<< JObj([text |-> JStr(" there was a girl who"),
                                             index |-> JNum(0),
                                             logprobs |-> JNull,
                                             finish_reason |-> JStr("length")]) >>)]))
BodyChat ==
    JsonText(JObj([id |-> JStr("cmpl-uqkvlQyYK7bGYrRHQ0eXlWi7"),
                   object |-> JStr("chat.completion"),
                   created |-> JNum(1589478378),
                   choices |-> JArr(<< JObj([index |-> JNum(0),
                                             message |-> JObj([role |-> JStr("assistant"),
                                                               content |-> JStr("Hello there")]),
                                             finish_reason |-> JStr("stop")]) >>)]))
BodyCompletionTwoChoices ==
    JsonText(JObj([id |-> JStr("cmpl-2"), created |-> JNum(1589478378),
                   model |-> JStr("davinci:2020-05-03"),
                   choices |-> JArr(<< JObj([text |-> JStr(" there was a girl who"),
                                             index |-> JNum(0),
                                             finish_reason |-> JStr("length")]),
                                       JObj([text |-> JStr(" a dragon lived"),
                                             index |-> JNum(1),
                                             finish_reason |-> JStr("length")]) >>)]))
BodyCompletionNoChoices ==
    JsonText(JObj([id |-> JStr("cmpl-3"), created |-> JNum(1589478378),
                   model |-> JStr("davinci:2020-05-03"),
                   choices |-> JArr(<< >>)]))
BodyChatTwoChoices ==
    JsonText(JObj([id |-> JStr("chatcmpl-2"), created |-> JNum(1589478378),
                   choices |-> JArr(<< JObj([index |-> JNum(0),
                                             message |-> JObj([role |-> JStr("assistant"),
                                                               content |-> JStr("Hello there")]),
                                             finish_reason |-> JStr("stop")]),
                                       JObj([index |-> JNum(1),
                                             message |-> JObj([role |-> JStr("user"),
                                                               content |-> JStr("Hi")]),
                                             finish_reason |-> JStr("stop")]) >>)]))
BodyChatNoChoices ==
    JsonText(JObj([id |-> JStr("chatcmpl-1"), created |-> JNum(1589478378),
                   choices |-> JArr(<< >>)]))

Bodies ==
    {NotJson, BodyErrorCodeString, BodyErrorCodeNull, BodyErrorNoCode,
     BodyErrorNoMessage, BodyModel, BodyModels, BodyCompletion, BodyChat,
     BodyChatNoChoices, BodyCompletionTwoChoices, BodyCompletionNoChoices,
     BodyChatTwoChoices}

\* ------------------------------------------------------- client actions
IdleCall == [pc |-> "idle", seq |-> 0]
CallIds == {"a"}

\* Client::new has been called with a token, no call made yet, and the
\* caller's builders fresh from builder().
Init ==
    /\ \E token \in Tokens, http \in HttpBuilds :
          created = [token |-> token, http |-> http,
                     out |-> Client_new(token, http)]
    /\ client = ClientOf(created.out)
    /\ calls = [c \in CallIds |-> IdleCall]
    /\ wire = << >>
    /\ cbuilder = CompletionArgs_builder
    /\ chbuilder = ChatArgs_builder
    /\ cgiven = [f \in CompletionFields |-> None]
    /\ chgiven = [f \in ChatFields |-> None]
    /\ nset = 0
    /\ last = NoConstruction

\* The caller may start a call where none is in progress.
CanCall(c) ==
    /\ client # NoClient
    /\ calls[c].pc \in {"idle", "done", "no_impl"}
    /\ Len(wire) + Cardinality({d \in DOMAIN calls : calls[d].pc = "called"})
         < MaxRequests

Called(c, op, input) ==
    [pc |-> "called", seq |-> calls[c].seq + 1, op |-> op, input |-> input]

\* client.models(): the future of the call is created.
Models(c) ==
    /\ CanCall(c)
    /\ calls' = [calls EXCEPT ![c] = Called(c, "models", [kind |-> "none"])]
    /\ UNCHANGED <<created, client, wire, buildVars>>

\* client.model(id), the id one of `ids`
ModelOf(c, ids) ==
    /\ CanCall(c)
    /\ \E id \in ids :
          calls' = [calls EXCEPT ![c] = Called(c, "model", [kind |-> "id", id |-> id])]
    /\ UNCHANGED <<created, client, wire, buildVars>>

\* client.model(id)
Model(c) == ModelOf(c, ModelIds)

\* client.complete_prompt(prompt) with an argument, one of `inputs`, that
\* is Into<CompletionArgs>
CompletePromptOf(c, inputs) ==
    /\ CanCall(c)
    /\ \E input \in inputs :
          /\ IntoCompletionArgs(input).some
          /\ calls' = [calls EXCEPT ![c] = Called(c, "complete_prompt", input)]
    /\ UNCHANGED <<created, client, wire, buildVars>>

\* client.complete_prompt(prompt)
CompletePrompt(c) == CompletePromptOf(c, CompletionInputs)

\* client.chat(msg) with an argument, one of `inputs`, that is Into<ChatArgs>
ChatOf(c, inputs) ==
    /\ CanCall(c)
    /\ \E input \in inputs :
          /\ IntoChatArgs(input).some
          /\ calls' = [calls EXCEPT ![c] = Called(c, "chat", input)]
    /\ UNCHANGED <<created, client, wire, buildVars>>

\* client.chat(msg)
Chat(c) == ChatOf(c, ChatInputs)

\* complete_prompt or chat written with an argument for which no Into
\* conversion exists: the trait bound of the parameter is not satisfied,
\* the call is not part of any program that compiles and nothing is sent.
NoImpl(c) ==
    /\ client # NoClient
    /\ calls[c].pc \in {"idle", "done", "no_impl"}
    /\ \/ \E input \in CompletionInputs :
            /\ ~IntoCompletionArgs(input).some
            /\ calls' = [calls EXCEPT ![c] =
                  [pc |-> "no_impl", seq |-> calls[c].seq,
                   op |-> "complete_prompt", input |-> input]]
       \/ \E input \in ChatInputs :
            /\ ~IntoChatArgs(input).some
            /\ calls' = [calls EXCEPT ![c] =
                  [pc |-> "no_impl", seq |-> calls[c].seq,
                   op |-> "chat", input |-> input]]
    /\ UNCHANGED <<created, client, wire, buildVars>>

\* A variant in which chat posts to the endpoint of complete_prompt.
RequestOf_one_post_endpoint(self, call, args) ==
    CASE call.op = "models" -> Client_get_request(self, "models")
      [] call.op = "model" -> Client_get_request(self, "models/" \o call.input.id)
      [] call.op = "complete_prompt" ->
            Client_post_request(self, "completions",
                                Serialize(TyCompletionArgs, args))
      [] call.op = "chat" ->
            Client_post_request(self, "completions",
                                Serialize(TyChatArgs, args))

\* The request of a call: models and model go through get, complete_prompt
\* and chat convert their argument and go through post.
RequestOf(self, call, args) ==
    CASE call.op = "models" -> Client_get_request(self, "models")
      [] call.op = "model" -> Client_get_request(self, "models/" \o call.input.id)
      [] call.op = "complete_prompt" ->
            Client_post_request(self, "completions",
                                Serialize(TyCompletionArgs, args))
      [] call.op = "chat" ->
            Client_post_request(self, "chat/completions",
                                Serialize(TyChatArgs, args))

\* let args = prompt.into(), let args = msg.into(); get takes no config.
NoArgs == [none |-> TRUE]
ArgsOf(call) ==
    CASE call.op = "complete_prompt" -> IntoCompletionArgs(call.input).v
      [] call.op = "chat" -> IntoChatArgs(call.input).v
      [] OTHER -> NoArgs

\* The type the success body is decoded as.
ResponseType(op) ==
    CASE op = "models" -> TyContainer(TyModelInfo)
      [] op = "model" -> TyModelInfo
      [] op = "complete_prompt" -> TyCompletion
      [] op = "chat" -> TyChatAnswer

\* The first poll of the future: the argument is converted, the request is
\* built and handed to the transport, and the call awaits send().
Send(c) ==
    /\ calls[c].pc = "called"
    /\ Len(wire) <= MaxRequests
    /\ LET call == calls[c]
           args == ArgsOf(call)
           request == RequestOf(client, call, args)
       IN  /\ wire' = Append(wire, [by |-> <<c, call.seq>>, request |-> request])
           /\ calls' = [calls EXCEPT ![c] =
                 [pc |-> "awaiting", args |-> args, request |-> request]
                     @@ call]
    /\ UNCHANGED <<created, client, buildVars>>

\* send() fails with one of `errors`.
SendFailsOf(c, errors) ==
    /\ calls[c].pc = "awaiting"
    /\ \E e \in errors :
          calls' = [calls EXCEPT ![c] =
              Client_on_send_error(calls[c], e) @@ [transportError |-> e]]
    /\ UNCHANGED <<created, client, wire, buildVars>>

\* send() fails: connection, TLS, timeout.
SendFails(c) == SendFailsOf(c, TransportErrors)

\* send() returns a response with one of `statuses`: its status line and
\* headers have arrived.
RespondOf(c, statuses) ==
    /\ calls[c].pc = "awaiting"
    /\ \E status \in statuses :
          calls' = [calls EXCEPT ![c] =
              [pc |-> "received", status |-> status] @@ calls[c]]
    /\ UNCHANGED <<created, client, wire, buildVars>>

\* send() returns a response.
Respond(c) == RespondOf(c, Statuses)

\* A variant in which the response is kept in one slot shared by the calls
\* of a client: a call matches on the status of another call's response
\* when one has arrived and is not read yet.
ResponseStatus_shared(cs, c) ==
    LET others == {d \in DOMAIN cs : d # c /\ cs[d].pc = "received"}
    IN  IF others = {} THEN cs[c].status
        ELSE cs[CHOOSE d \in others : TRUE].status

\* `let response = ...send().await?`: the response is a local of the call's
\* own future, and response.status() is the status of that response.
ResponseStatus(cs, c) == cs[c].status

\* response.json().await: the body, one of `bodies` or one that cannot be
\* read, is read and decoded, and the call returns.
ReadBodyOf(c, bodies) ==
    /\ calls[c].pc = "received"
    /\ \E body \in bodies \cup {BodyReadError} :
          LET call == calls[c]
              status == ResponseStatus(calls, c)
              T == ResponseType(call.op)
              r == IF call.op \in {"models", "model"}
                   THEN Client_get_result(status, body, T)
                   ELSE Client_post_result(status, body, T)
          IN  calls' = [calls EXCEPT ![c] =
                  [pc |-> "done", body |-> body,
                   result |-> IF call.op = "models" THEN Client_models_map(r)
                              ELSE r] @@ call]
    /\ UNCHANGED <<created, client, wire, buildVars>>

\* response.json().await
ReadBody(c) == ReadBodyOf(c, Bodies)

\* The caller drops the future of a call before it has returned: the call
\* ends where it is, without a result.
Abandon(c) ==
    /\ calls[c].pc \in {"called", "awaiting", "received"}
    /\ calls' = [calls EXCEPT ![c] =
          [pc |-> "abandoned", at |-> calls[c].pc] @@ calls[c]]
    /\ UNCHANGED <<created, client, wire, buildVars>>

\* The caller formats the Completion or ChatAnswer a call has returned,
\* as in println!("{}", answer); a panic of fmt unwinds the caller.
Render(c) ==
    /\ calls[c].pc = "done"
    /\ calls[c].op \in {"complete_prompt", "chat"}
    /\ calls[c].result.ok
    /\ "shown" \notin DOMAIN calls[c]
    /\ LET shown == IF calls[c].op = "complete_prompt"
                     THEN Completion_fmt(calls[c].result.v)
                     ELSE ChatAnswer_fmt(calls[c].result.v)
       IN  calls' = [calls EXCEPT ![c] =
               [pc |-> IF IsPanic(shown) THEN "panicked" ELSE "done",
                shown |-> shown] @@ calls[c]]
    /\ UNCHANGED <<created, client, wire, buildVars>>

Next ==
    \/ \E c \in DOMAIN calls : Models(c)
    \/ \E c \in DOMAIN calls : Model(c)
    \/ \E c \in DOMAIN calls : CompletePrompt(c)
    \/ \E c \in DOMAIN calls : Chat(c)
    \/ \E c \in DOMAIN calls : NoImpl(c)
    \/ \E c \in DOMAIN calls : Send(c)
    \/ \E c \in DOMAIN calls : SendFails(c)
    \/ \E c \in DOMAIN calls : Respond(c)
    \/ \E c \in DOMAIN calls : ReadBody(c)
    \/ \E c \in DOMAIN calls : Render(c)

\* The calls on one client, the configs being given as inputs.
Spec == Init /\ [][Next]_vars

\* ----------------------------------------- construction without a client
\* Fresh builders; the client exists and no call is made on it.
InitBuild ==
    /\ cbuilder = CompletionArgs_builder
    /\ chbuilder = ChatArgs_builder
    /\ cgiven = [f \in CompletionFields |-> None]
    /\ chgiven = [f \in ChatFields |-> None]
    /\ nset = 0
    /\ last = NoConstruction
    /\ created = [token |-> TokenBogus, http |-> Ok("reqwest::Client"),
                  out |-> Client_new(TokenBogus, Ok("reqwest::Client"))]
    /\ client = ClientOf(created.out)
    /\ calls = [c \in {} |-> IdleCall]
    /\ wire = << >>

NextBuild ==
    \/ CompletionSetter
    \/ ChatSetter
    \/ CompletionBuild
    \/ ChatBuild
    \/ CompletionTryFrom
    \/ ChatTryFrom
    \/ CompletionFrom
    \/ ChatFrom

\* The construction of configurations, without any call on a client.
SpecBuild == InitBuild /\ [][NextBuild]_vars

\* --------------------------------------- calls in flight at the same time
\* Two callers share one client (Client is Clone and its methods take
\* &self) and each has a call in flight while the other runs.
ConcCallIds == {"a", "b"}
ConcModelIds == {"davinci"}
ConcCompletionInputs == {[kind |-> "str", s |-> "Once upon a time"]}
ConcChatInputs == {[kind |-> "pairs", pairs |-> << <<"User", "u1">> >>]}
ConcTransportErrors == {"Connect"}
ConcStatuses == {200, 404}
ConcBodies == {BodyErrorCodeString, BodyModel, BodyChat}

InitConc ==
    /\ created = [token |-> TokenBogus, http |-> Ok("reqwest::Client"),
                  out |-> Client_new(TokenBogus, Ok("reqwest::Client"))]
    /\ client = ClientOf(created.out)
    /\ calls = [c \in ConcCallIds |-> IdleCall]
    /\ wire = << >>
    /\ cbuilder = CompletionArgs_builder
    /\ chbuilder = ChatArgs_builder
    /\ cgiven = [f \in CompletionFields |-> None]
    /\ chgiven = [f \in ChatFields |-> None]
    /\ nset = 0
    /\ last = NoConstruction

NextConc ==
    \/ \E c \in DOMAIN calls : Models(c)
    \/ \E c \in DOMAIN calls : ModelOf(c, ConcModelIds)
    \/ \E c \in DOMAIN calls : CompletePromptOf(c, ConcCompletionInputs)
    \/ \E c \in DOMAIN calls : ChatOf(c, ConcChatInputs)
    \/ \E c \in DOMAIN calls : Send(c)
    \/ \E c \in DOMAIN calls : SendFailsOf(c, ConcTransportErrors)
    \/ \E c \in DOMAIN calls : RespondOf(c, ConcStatuses)
    \/ \E c \in DOMAIN calls : ReadBodyOf(c, ConcBodies)
    \/ \E c \in DOMAIN calls : Abandon(c)

\* The calls of two callers on one shared client, interleaved in every way.
SpecConc == InitConc /\ [][NextConc]_vars

\* =================================================================== claims

\* The defaults as the documentation of the configs lists them.
DocumentedCompletionDefaults ==
    [model |-> "text-davinci-003", prompt |-> "<|endoftext|>",
     max_tokens |-> 16, temperature |-> 10, top_p |-> 10, n |-> 1,
     logprobs |-> None, echo |-> FALSE, stop |-> None,
     presence_penalty |-> 0, frequency_penalty |-> 0, logit_bias |-> {}]
DocumentedChatDefaults ==
    [model |-> "gpt-3.5-turbo", messages |-> << >>, max_tokens |-> None,
     temperature |-> 10, top_p |-> 10, n |-> 1, stop |-> None,
     presence_penalty |-> 0, frequency_penalty |-> 0, logit_bias |-> {}]

DocumentedDefaults(ty) ==
    IF ty = "CompletionArgs" THEN DocumentedCompletionDefaults
    ELSE DocumentedChatDefaults

\* The setters called before the construction `last`.
Touched(l) == {f \in DOMAIN l.given : l.given[f].some}

\* C6: build() on a builder with no setter called yields exactly the
\* documented defaults of CompletionArgs and of ChatArgs, and after any
\* sequence of setters every field no setter touched has its default.
C6_BuildDefaults ==
    last.op = "build" =>
        /\ last.out.ok
        /\ Touched(last) = {} => last.out.v = DocumentedDefaults(last.ty)
        /\ \A f \in DOMAIN last.given \ Touched(last) :
              last.out.v[f] = DocumentedDefaults(last.ty)[f]

\* A CompletionArgs built after setters on two of its fields only.
C6_Witness ==
    /\ last.op = "build"
    /\ last.ty = "CompletionArgs"
    /\ Touched(last) = {"temperature", "n"}

\* C7: CompletionArgs::from(s) equals in every field the config built by
\* builder().prompt(s).build(), ChatArgs::from(list) equals the config built
\* by builder().messages(the list's messages).build(), and neither panics.
C7_FromEqualsBuilt ==
    last.op = "from" =>
        /\ ~IsPanic(last.out)
        /\ last.ty = "CompletionArgs" =>
              Ok(last.out) = CompletionArgsBuilder_build(
                  CompletionArgsBuilder_set(CompletionArgs_builder, "prompt",
                                            last.input))
        /\ last.ty = "ChatArgs" =>
              Ok(last.out) = ChatArgsBuilder_build(
                  ChatArgsBuilder_set(ChatArgs_builder, "messages",
                      [i \in 1..Len(last.input) |->
                          [role |-> last.input[i][1],
                           content |-> last.input[i][2]]]))

\* A conversion of the empty prompt has happened.
C7_Witness ==
    /\ last.op = "from"
    /\ last.ty = "CompletionArgs"
    /\ last.input = ""

\* C8: build() and try_from return a config, never an error, after any
\* sequence of setters with any values, and every value passed to a setter,
\* in range or not, is in the config unchanged.
C8_BuildNeverFails ==
    last.op \in {"build", "try_from"} =>
        /\ last.out.ok
        /\ \A f \in Touched(last) :
              last.out.v[f] =
                  IF \/ f \in {"logprobs", "stop"}
                     \/ (f = "max_tokens" /\ last.ty = "ChatArgs")
                  THEN Some(last.given[f].v)
                  ELSE last.given[f].v

\* A CompletionArgs built with temperature 2.5 and n = 0.
C8_Witness ==
    /\ last.op = "build"
    /\ last.ty = "CompletionArgs"
    /\ last.given["temperature"] = Some(25)
    /\ last.given["n"] = Some(0)
    /\ last.out.ok

\* ---- claims about the calls on a client

\* The calls that have returned after the response arrived and its body
\* was read.
Returned == {c \in DOMAIN calls : calls[c].pc = "done" /\ "body" \in DOMAIN calls[c]}

\* The body is JSON text of the shape {"error": {"message": <string>,
\* "code": <string>, ...}}, stated on the JSON itself.
IsEnvelope(body) ==
    /\ body.json
    /\ body.j.t = "obj"
    /\ "error" \in DOMAIN body.j.m
    /\ body.j.m.error.t = "obj"
    /\ "message" \in DOMAIN body.j.m.error.m
    /\ body.j.m.error.m.message.t = "str"
    /\ "code" \in DOMAIN body.j.m.error.m
    /\ body.j.m.error.m.code.t = "str"

\* C1: a call that receives a status other than 200 with a body that
\* decodes as the error envelope returns Error::Api with the envelope's
\* message and the textual form of the HTTP status received as status_code,
\* whatever code the envelope carried.
C1_ApiErrorCarriesHttpStatus ==
    \A c \in Returned :
        (calls[c].status # 200 /\ IsEnvelope(calls[c].body)) =>
            calls[c].result =
                Err(Api([message |-> calls[c].body.j.m.error.m.message.sv,
                         status_code |-> StatusToString(calls[c].status)]))

\* A post has returned the service error of a 429 whose envelope carried
\* the code "model_not_found".
C1_Witness ==
    \E c \in Returned :
        /\ calls[c].op = "chat"
        /\ calls[c].status = 429
        /\ calls[c].body = BodyErrorCodeString
        /\ calls[c].result.e.variant = "Api"
        /\ calls[c].result.e.err.status_code = "429 Too Many Requests"

\* C2: a call returns Ok only if the status is exactly 200; for every other
\* status the call fails, and whether it fails with the service error or
\* with a transport failure depends on the body alone, not on the status.
C2_OkOnlyOn200 ==
    \A c \in Returned :
        /\ calls[c].result.ok => calls[c].status = 200
        /\ calls[c].status # 200 =>
              /\ ~calls[c].result.ok
              /\ calls[c].result.e.variant = "Api" <=> IsEnvelope(calls[c].body)

\* model(id) has received 204 with a body that is a ModelInfo, and failed.
C2_Witness ==
    \E c \in Returned :
        /\ calls[c].op = "model"
        /\ calls[c].status = 204
        /\ calls[c].body = BodyModel
        /\ ~calls[c].result.ok

\* C3: when the GET for one model receives 404 with the body
\* {"error":{"message":"Some kind of error happened","code":null}}, model(id)
\* returns Error::Api with that message and the representation of 404 as
\* its status string.
C3_NullCodeSurfacedAsApiError ==
    \A c \in Returned :
        (calls[c].op = "model" /\ calls[c].status = 404
            /\ calls[c].body = BodyErrorCodeNull) =>
            /\ ~calls[c].result.ok
            /\ calls[c].result.e.variant = "Api"
            /\ calls[c].result.e.err.message = "Some kind of error happened"
            /\ calls[c].result.e.err.status_code = "404 Not Found"

\* C4: a call ends in exactly one of a decoded typed value, a service
\* error and a transport failure; a service error is returned only after a
\* response with a status other than 200, and a 200 whose body does not
\* decode as the expected type is a transport failure.
C4_ThreeOutcomes ==
    \A c \in DOMAIN calls : calls[c].pc = "done" =>
        LET call == calls[c]
            r == call.result
            T == ResponseType(call.op)
            decoded == IF call.body.json THEN Deserialize(T, call.body.j)
                       ELSE Err("Decode")
        IN  /\ \/ r.ok
               \/ ~r.ok /\ r.e.variant = "Api"
               \/ ~r.ok /\ r.e.variant = "AsyncProtocol"
            /\ (~r.ok /\ r.e.variant = "Api") =>
                  "status" \in DOMAIN call /\ call.status # 200
            /\ r.ok =>
                  /\ "body" \in DOMAIN call
                  /\ decoded.ok
                  /\ r.v = IF call.op = "models" THEN decoded.v.data
                           ELSE decoded.v
            /\ ("body" \in DOMAIN call /\ call.status = 200 /\ ~decoded.ok) =>
                  ~r.ok /\ r.e.variant = "AsyncProtocol"

\* chat has received 200 with a body that is an error envelope, not a
\* ChatAnswer, and returned a transport failure.
C4_Witness ==
    \E c \in Returned :
        /\ calls[c].op = "chat"
        /\ calls[c].status = 200
        /\ calls[c].body = BodyErrorCodeString
        /\ calls[c].result = Err(AsyncProtocol("Decode"))

\* The requests on the wire sent by invocation k of call c.
SentBy(c, k) == {i \in 1..Len(wire) : wire[i].by = <<c, k>>}

\* C5: each call sends exactly one HTTP request whatever its outcome: none
\* before its first poll, one from then on, also after a connection
\* failure, a non-200 status or a body that does not decode; and a failure
\* of the transport is returned as it is.
C5_OneRequestPerCall ==
    \A c \in DOMAIN calls :
        /\ \A k \in 1..(calls[c].seq - 1) : Cardinality(SentBy(c, k)) = 1
        /\ calls[c].pc = "called" => SentBy(c, calls[c].seq) = {}
        /\ calls[c].pc \in {"awaiting", "received", "done"} =>
              Cardinality(SentBy(c, calls[c].seq)) = 1
        /\ (calls[c].pc = "done" /\ "transportError" \in DOMAIN calls[c]) =>
              calls[c].result = Err(AsyncProtocol(calls[c].transportError))

\* A second call has failed to connect after a first call was made.
C5_Witness ==
    \E c \in DOMAIN calls :
        /\ calls[c].pc = "done"
        /\ calls[c].seq = 2
        /\ "transportError" \in DOMAIN calls[c]
        /\ Len(wire) = 2

\* The JSON of one message: the role under its lowercase name, the content.
MessageJson(role, content) ==
    JObj([role |-> JStr(CASE role = "System" -> "system"
                          [] role = "User" -> "user"
                          [] role = "Assistant" -> "assistant"),
          content |-> JStr(content)])

\* C9: the i-th (role, content) pair given to chat is the i-th ChatFormat
\* of the config, with the same role and content, none dropped, duplicated
\* or reordered, and the request body carries them in that order; the
\* messages of a pre-built ChatArgs are sent in their order too.
C9_MessagesKeepOrder ==
    \A c \in DOMAIN calls :
        (calls[c].pc \in {"awaiting", "received", "done"} /\ calls[c].op = "chat") =>
            LET call == calls[c]
                sent == call.request.body.v.j.m.messages
            IN  /\ call.input.kind = "pairs" =>
                      /\ Len(call.args.messages) = Len(call.input.pairs)
                      /\ \A i \in 1..Len(call.input.pairs) :
                            /\ call.args.messages[i].role = call.input.pairs[i][1]
                            /\ call.args.messages[i].content = call.input.pairs[i][2]
                /\ call.input.kind = "args" =>
                      call.args.messages = call.input.args.messages
                /\ sent.t = "arr"
                /\ Len(sent.a) = Len(call.args.messages)
                /\ \A i \in 1..Len(sent.a) :
                      sent.a[i] = MessageJson(call.args.messages[i].role,
                                              call.args.messages[i].content)
                /\ \E i \in 1..Len(wire) :
                      wire[i] = [by |-> <<c, call.seq>>, request |-> call.request]

\* chat has sent a conversation of three turns whose first and last are
\* the same pair.
C9_Witness ==
    \E c \in DOMAIN calls :
        /\ calls[c].pc = "awaiting"
        /\ calls[c].op = "chat"
        /\ calls[c].input.kind = "pairs"
        /\ Len(calls[c].input.pairs) = 3
        /\ calls[c].request.body.v.j.m.messages.a[2] = MessageJson("Assistant", "a1")

\* C10 as stated: complete_prompt accepts a bare prompt string, a pre-built
\* CompletionArgs or a CompletionArgs builder, and chat a list of pairs, a
\* pre-built ChatArgs or a ChatArgs builder: no argument of these kinds is
\* refused.
C10_BuilderAccepted ==
    \A c \in DOMAIN calls :
        ("input" \in DOMAIN calls[c]
            /\ calls[c].input.kind \in {"str", "pairs", "args", "builder"}) =>
            calls[c].pc # "no_impl"

\* C10 as amended: complete_prompt accepts a bare prompt string or a
\* pre-built CompletionArgs, and chat a list of pairs or a pre-built
\* ChatArgs; each is converted to the config (the prompt or the messages
\* with every other field at its default, or the config itself) and that
\* config is the body sent. The only argument refused is a builder.
C10_StringPairsAndArgsAccepted ==
    \A c \in DOMAIN calls :
        LET call == calls[c]
        IN  /\ call.pc = "no_impl" => call.input.kind = "builder"
            /\ (call.pc \in {"awaiting", "received", "done"}
                  /\ call.op = "complete_prompt") =>
                  /\ call.input.kind \in {"str", "args"}
                  /\ call.input.kind = "str" =>
                        call.args = [DocumentedCompletionDefaults
                                        EXCEPT !.prompt = call.input.s]
                  /\ call.input.kind = "args" => call.args = call.input.args
                  /\ call.request.body = Some(JsonText(Serialize(TyCompletionArgs, call.args)))
            /\ (call.pc \in {"awaiting", "received", "done"}
                  /\ call.op = "chat") =>
                  /\ call.input.kind \in {"pairs", "args"}
                  /\ call.input.kind = "pairs" =>
                        \A f \in ChatFields \ {"messages"} :
                            call.args[f] = DocumentedChatDefaults[f]
                  /\ call.input.kind = "args" => call.args = call.input.args
                  /\ call.request.body = Some(JsonText(Serialize(TyChatArgs, call.args)))

\* complete_prompt has sent a pre-built CompletionArgs whose max_tokens is 5.
C10_Witness ==
    \E c \in DOMAIN calls :
        /\ calls[c].pc = "awaiting"
        /\ calls[c].op = "complete_prompt"
        /\ calls[c].input.kind = "args"
        /\ calls[c].args.max_tokens = 5
        /\ calls[c].request.body.v.j.m.max_tokens = JNum(5)

\* The method and path of each operation in the interface table.
InterfaceTable(call) ==
    CASE call.op = "models" -> [method |-> "GET", path |-> "models"]
      [] call.op = "model" ->
            [method |-> "GET", path |-> "models/" \o call.input.id]
      [] call.op = "complete_prompt" -> [method |-> "POST", path |-> "completions"]
      [] call.op = "chat" -> [method |-> "POST", path |-> "chat/completions"]

\* C11: each domain operation sends its request with the method and path
\* of the interface table, the URL being the base URL of the client
\* followed by the path: models GET models, model(id) GET models/{id},
\* complete_prompt POST completions with the CompletionArgs as the JSON
\* body, chat POST chat/completions with the ChatArgs as the JSON body; a
\* GET carries no body.
C11_MethodAndPath ==
    \A i \in 1..Len(wire) :
        \A c \in DOMAIN calls :
            (calls[c].pc \in {"awaiting", "received", "done"}
                /\ wire[i].by = <<c, calls[c].seq>>) =>
                LET call == calls[c]
                    sent == wire[i].request
                    row == InterfaceTable(call)
                IN  /\ sent.method = row.method
                    /\ sent.url = client.base_url \o row.path
                    /\ call.op \in {"models", "model"} => sent.body = None
                    /\ call.op = "complete_prompt" =>
                          sent.body = Some(JsonText(Serialize(TyCompletionArgs, call.args)))
                    /\ call.op = "chat" =>
                          sent.body = Some(JsonText(Serialize(TyChatArgs, call.args)))

\* model("text-ada-001") has been sent as a GET of models/text-ada-001
\* after a chat was sent as a POST of chat/completions.
C11_Witness ==
    /\ Len(wire) = 2
    /\ wire[1].request.method = "POST"
    /\ wire[1].request.url = "https://api.openai.com/v1/chat/completions"
    /\ wire[2].request.method = "GET"
    /\ wire[2].request.url = "https://api.openai.com/v1/models/text-ada-001"
    /\ wire[2].request.body = None

\* C12: the base URL and the Authorization: Bearer <token> credential of a
\* Client are those of its construction in every state: no step of models,
\* model, complete_prompt or chat, succeeding or failing, changes the
\* client, and every request sent, GET as well as POST, carries the
\* Authorization header made of "Bearer " and the token given to new.
C12_CredentialFixed ==
    /\ [](client # NoClient =>
            /\ client.base_url = "https://api.openai.com/v1/"
            /\ client.headers.Authorization = Bearer \o created.token
            /\ \A i \in 1..Len(wire) :
                  /\ "Authorization" \in DOMAIN wire[i].request.headers
                  /\ wire[i].request.headers.Authorization = Bearer \o created.token)
    /\ [][client' = client /\ created' = created]_vars

\* On the client made from the token "bogus", a GET and then a POST have
\* been sent, and the second call has failed.
C12_Witness ==
    /\ created.token = <<98, 111, 103, 117, 115>>
    /\ Len(wire) = 2
    /\ wire[1].request.method = "GET"
    /\ wire[2].request.method = "POST"
    /\ wire[2].request.headers.Authorization =
          <<66, 101, 97, 114, 101, 114, 32, 98, 111, 103, 117, 115>>
    /\ \E c \in DOMAIN calls :
          calls[c].pc = "done" /\ calls[c].seq = 2 /\ ~calls[c].result.ok

\* The result a call has from its own request and the response to it: the
\* transport's failure, or what its own status and body give.
OwnOutcome(call) ==
    /\ "transportError" \in DOMAIN call =>
          call.result = Err(AsyncProtocol(call.transportError))
    /\ "body" \in DOMAIN call =>
          /\ call.result.ok => call.status = 200
          /\ (call.status = 200 /\ call.body = BodyModel /\ call.op = "model") =>
                call.result.ok /\ call.result.v.id = "ada"
          /\ (call.status = 200 /\ call.body = BodyChat /\ call.op = "chat") =>
                call.result.ok
          /\ call.status # 200 =>
                /\ ~call.result.ok
                /\ call.result.e.variant = "Api" <=> IsEnvelope(call.body)
                /\ call.result.e.variant = "Api" =>
                      call.result.e.err.status_code = StatusToString(call.status)

\* C13: for calls running at the same time on one shared client, in every
\* interleaving: each call's request on the wire is the one it built from
\* its own argument, and its result is the one its own request and
\* response give, the same for two calls with the same request and
\* response; a call that has something to do can do it whatever state
\* the other calls are in; and every step, an abandonment or a failure
\* included, is the step of one call and leaves the record and the
\* result of every other call, and the client, as they were.
C13_CallsIndependent ==
    /\ [](\A c \in DOMAIN calls :
            /\ calls[c].pc = "called" => ENABLED Send(c)
            /\ calls[c].pc = "received" => ENABLED ReadBodyOf(c, ConcBodies)
            /\ calls[c].pc \in {"awaiting", "received", "done"} =>
                  /\ calls[c].request = RequestOf(client, calls[c], ArgsOf(calls[c]))
                  /\ \E i \in 1..Len(wire) :
                        wire[i] = [by |-> <<c, calls[c].seq>>,
                                   request |-> calls[c].request]
            /\ calls[c].pc = "done" => OwnOutcome(calls[c])
            /\ \A d \in DOMAIN calls :
                  (/\ calls[c].pc = "done" /\ calls[d].pc = "done"
                   /\ calls[c].request = calls[d].request
                   /\ "body" \in DOMAIN calls[c] /\ "body" \in DOMAIN calls[d]
                   /\ calls[c].status = calls[d].status
                   /\ calls[c].body = calls[d].body) =>
                      calls[c].result = calls[d].result)
    /\ [][/\ client' = client
           /\ \A c \in DOMAIN calls :
                 calls'[c] # calls[c] =>
                    \A d \in DOMAIN calls \ {c} : calls'[d] = calls[d]]_vars

\* Call b sent its request first, got a 404 and was abandoned before its
\* body was read; call a, sent after it, has returned the model of its own
\* 200 response.
C13_Witness ==
    /\ DOMAIN calls = {"a", "b"}
    /\ Len(wire) = 2
    /\ wire[1].by = <<"b", 1>>
    /\ wire[2].by = <<"a", 1>>
    /\ calls["b"].pc = "abandoned"
    /\ calls["b"].at = "received"
    /\ calls["b"].status = 404
    /\ calls["a"].pc = "done"
    /\ calls["a"].op = "model"
    /\ "body" \in DOMAIN calls["a"]
    /\ calls["a"].status = 200
    /\ calls["a"].result.ok
    /\ calls["a"].result.v.id = "ada"

CannotFormHeaderValue(token) ==
    \E i \in 1..Len(token) :
        (token[i] < 32 /\ token[i] # 9) \/ token[i] = 127

\* C15: Client::new called with a token that cannot form a header value
\* (one with a line feed or DEL) does not return: it panics with "invalid
\* token" and no client exists; it returns Err only when the token is
\* valid and the build of the HTTP client has failed, and the error is
\* that failure; otherwise it returns the client.
C15_InvalidTokenPanics ==
    /\ CannotFormHeaderValue(created.token) =>
          /\ created.out = Panic("invalid token")
          /\ client = NoClient
    /\ ~CannotFormHeaderValue(created.token) =>
          /\ ~IsPanic(created.out)
          /\ created.out.ok <=> created.http.ok
          /\ ~created.out.ok =>
                /\ created.out = Err(AsyncProtocol(created.http.e))
                /\ client = NoClient
          /\ created.out.ok => client = created.out.v

\* Client::new("sk\n") has panicked although the HTTP client would build.
C15_Witness ==
    /\ created.token = <<115, 107, 10>>
    /\ created.http.ok
    /\ IsPanic(created.out)
    /\ created.out.panic = "invalid token"
    /\ client = NoClient

\* The Debug form of the role a message's JSON names.
RoleDebug(name) ==
    CASE name = "system" -> "System"
      [] name = "user" -> "User"
      [] name = "assistant" -> "Assistant"

\* C16: rendering a returned Completion gives the text of the first choice
\* of the response and nothing of the later ones, rendering a ChatAnswer
\* gives "role: <Role>, content: <content>" of the first choice's message;
\* when the decoded choices list is empty the rendering panics with index
\* out of bounds instead of giving a text.
C16_DisplayFirstChoice ==
    \A c \in DOMAIN calls :
        "shown" \in DOMAIN calls[c] =>
            LET call == calls[c]
                choices == call.body.j.m.choices.a
            IN  /\ call.result.ok
                /\ Len(choices) = 0 =>
                      /\ call.pc = "panicked"
                      /\ call.shown =
                            Panic("index out of bounds: the len is 0 but the index is 0")
                /\ (Len(choices) > 0 /\ call.op = "complete_prompt") =>
                      call.shown = [text |-> choices[1].m.text.sv]
                /\ (Len(choices) > 0 /\ call.op = "chat") =>
                      call.shown =
                        [text |-> "role: " \o RoleDebug(choices[1].m.message.m.role.sv)
                                  \o ", content: " \o choices[1].m.message.m.content.sv]

\* complete_prompt has returned Ok with a Completion decoded from a 200
\* response without choices, and rendering it has panicked.
C16_Witness ==
    \E c \in DOMAIN calls :
        /\ calls[c].pc = "panicked"
        /\ calls[c].op = "complete_prompt"
        /\ calls[c].status = 200
        /\ calls[c].body = BodyCompletionNoChoices
        /\ calls[c].result.ok
        /\ calls[c].result.v.choices = << >>
        /\ IsPanic(calls[c].shown)
====
